---- MODULE Spec2Model ----
(***************************************************************************)
(* Model of the Inlet side of the npipe proxy data plane                   *)
(* (np_base/src/proxy/inlet.rs): the session registry, the per-session     *)
(* backpressure counter read_buf_len, the delegate callbacks               *)
(* on_session_start / on_recv_frame / on_session_close and the ingress     *)
(* switch Inlet::input_internal.                                           *)
(*                                                                         *)
(* The TCP/UDP session framework (reader task, writer task, teardown) and  *)
(* the crypto kit are not part of the modelled source files; they are      *)
(* modelled from the specification text (sections 4.1, 4.2, 5 and 7).      *)
(***************************************************************************)
EXTENDS Integers, Sequences, FiniteSets, TLC

\* ------------------------------------------------------------------ bounds
\* Session ids handed out by the acceptor (monotonic, unique).
SessionIds == {1, 2}
\* Events that feed the sessions in one run: frames the readers hand to
\* on_recv_frame and input() calls that enqueue a writer message, reach a
\* counter or fail to decode.  (The writer channels themselves are unbounded.)
MaxEvents == 3
\* Extra on_session_close calls on already closed delegates (SpecDup only).
MaxDupClose == 1
\* Successful starts of the Inlet in one run (LifeSpec only).
MaxCycles == 2
\* Bytes one socket read puts into a reader's buffer (ExtractSpec only).
MaxRead == 3
\* Extracted frames a reader's history window holds (ExtractSpec only).
MaxExtract == 4
\* Tunnel ids the database hands out in one run (ManagerSpec only).
MaxTunnelId == 3

\* --------------------------------------------------------------- constants
READ_BUF_MAX_LEN == 1024 * 1024

\* Raw frame lengths read from the client socket.
FrameLens == {1, READ_BUF_MAX_LEN + 1}
\* Lengths carried by O2iSendDataResult inputs.
AckLens == {1, 4 * READ_BUF_MAX_LEN}
\* Configurations (is_compressed, encryption_method) given to Inlet::start:
\* the plain tunnel and the compressed, encrypted one.
Configs == {<<FALSE, "None">>, <<TRUE, "Aes128">>}

\* Tasks that take the Inlet's locks at the same time (LockSpec only).
LockTasks == {1, 2, 3}
\* Players of the server (PlayerSpec only).
PlayerIds == {1, 2}
\* Writer channels handed to on_connect_session.
Senders == {1, 2}
\* Senders (player ids) a tunnel is configured for.
TunnelSenders == {1, 2}
\* Source addresses given to the tunnel manager: the text before the colon
\* and the number written after it.
SourceAddrs ==
    [host : {"0.0.0.0", "127.0.0.1"}, port : {80, 81}]
        \cup {[host |-> "0.0.0.0", port |-> 65536]}
\* Endpoint addresses given to the tunnel manager.
EndpointAddrs == {[host |-> "10.0.0.1", port |-> 22], [host |-> "", port |-> 22]}

VARIABLES
    is_compressed,      \* Inlet configuration captured by the delegate factory
    encryption_method,  \* Inlet configuration captured by the delegate factory
    session_info_map,   \* registry: session id -> SessionInfo
    read_buf_len,       \* per delegate: the shared Arc<RwLock<usize>>
    wq,                 \* per session: writer messages sent and not yet received
    phase,              \* per session: position of the framework's session task
    pc,                 \* per session: position of the reader in on_recv_frame
    frame,              \* per session: the transformed frame held by on_recv_frame
    wack,               \* per session: completion the writer is about to invoke
    output,             \* per session id: messages passed to on_output_callback
    acked,              \* per session: sum of O2iSendDataResult lengths applied
    decode_failed,      \* history: sessions whose O2iRecvData failed to decode
    nevents,            \* frames and effective input() calls so far
    shutdown_tx,        \* Inlet.shutdown_tx.is_some()
    acceptor,           \* the task spawned by start: "none", "running", "draining"
    notify,             \* Inlet.notify holds a stored permit
    stop_pc,            \* position of a stop() call: "idle" or "waiting"
    ncycles,            \* successful starts so far
    arrived,            \* per session: payload ids of O2iRecvData, in arrival order
    tasks,              \* input() calls spawned as tasks and not yet run
    buffer,             \* per session: bytes in the reader's buffer
    extracted,          \* per session: lengths of the frames extracted so far
    rpc,                \* per session: the reader's loop is at "read" or "extract"
    players,            \* ids of the Players constructed so far
    player_session_id,  \* per Player: the field session_id
    player_tx,          \* per Player: the field tx (an Option)
    panicked,           \* history: Players whose on_connect_session panicked
    tunnels,            \* TunnelManager.tunnels
    db_rows,            \* ids of the rows of the tunnel table
    db_next_id,         \* the id the tunnel table gives the next inserted row
    manager_result,     \* history: the last TunnelManager call and its result
    holders,            \* per lock: the guards held, as (task, mode)
    waiters,            \* per lock: the requests not yet granted, oldest first
    task_pc,            \* per task: its position in the call it runs
    task_call           \* per task: the session and kind of the call it runs

config == <<is_compressed, encryption_method>>

inlet == <<shutdown_tx, acceptor, notify, stop_pc, ncycles>>

link == <<arrived, tasks>>

rdr == <<buffer, extracted, rpc>>

player == <<players, player_session_id, player_tx, panicked>>

manager == <<tunnels, db_rows, db_next_id, manager_result>>

\* The state of the server's Players and of its TunnelManager.
server == <<player, manager>>

\* The registry lock and the read_buf_len locks, and the tasks that take them.
locks == <<holders, waiters, task_pc, task_call>>

\* The state of the Inlet and of its sessions.
proxy == <<locks, config, inlet, link, rdr, session_info_map, read_buf_len, wq, phase, pc, frame,
           wack, output, acked, decode_failed, nevents>>

vars == <<locks, server, config, inlet, link, rdr, session_info_map, read_buf_len, wq, phase, pc,
          frame, wack, output, acked, decode_failed, nevents>>

\* Option values.
None == <<>>

Some(x) == <<x>>

\* ------------------------------------------------------------ crypto kit
\* A byte string is modelled symbolically: n is the plaintext length (and
\* identity), z tells whether it is compressed, e is the key it is encrypted
\* under (0: not encrypted).
Plain(n) == [n |-> n, z |-> FALSE, e |-> 0]

NoFrame == Plain(0)

CompressedLen(n) == n \div 2 + 1

CipherOverhead == 16

\* data.len()
ByteLen(d) ==
    LET body == IF d.z THEN CompressedLen(d.n) ELSE d.n
    IN  IF d.e # 0 THEN body + CipherOverhead ELSE body

\* generate_key: a key distinct per delegate; the empty key for method None.
generate_key(method, s) == IF method = "None" THEN 0 ELSE s

compress_data(d) == [d EXCEPT !.z = TRUE]

encrypt(key, d) == [d EXCEPT !.e = key]

\* decrypt fails on anything that is not a ciphertext under this key.
decrypt_ok(key, d) == d.e # 0 /\ d.e = key

decrypt(key, d) == [d EXCEPT !.e = 0]

\* decompress fails on anything that is not a compressed plaintext stream.
decompress_ok(d) == d.z /\ d.e = 0

decompress_data(d) == [d EXCEPT !.z = FALSE]

BASE64_STANDARD_encode(key) == <<"b64", key>>

\* --------------------------------------------------------------- messages
I2oConnect(s, c, m, k) ==
    [type |-> "I2oConnect", sid |-> s, is_compressed |-> c, method |-> m,
     key |-> BASE64_STANDARD_encode(k)]

I2oDisconnect(s) == [type |-> "I2oDisconnect", sid |-> s]

I2oSendData(s, d) == [type |-> "I2oSendData", sid |-> s, data |-> d]

I2oRecvDataResult(s, n) == [type |-> "I2oRecvDataResult", sid |-> s, len |-> n]

O2iConnect(s, ok) == [type |-> "O2iConnect", sid |-> s, success |-> ok]

O2iDisconnect(s) == [type |-> "O2iDisconnect", sid |-> s]

O2iSendDataResult(s, n) == [type |-> "O2iSendDataResult", sid |-> s, len |-> n]

O2iRecvData(s, d) == [type |-> "O2iRecvData", sid |-> s, data |-> d]

WriterClose == [type |-> "Close"]

SendAndThen(d, s, n) == [type |-> "SendAndThen", data |-> d, sid |-> s, len |-> n]

\* The receiving end of a session's writer channel lives from the accept
\* until the framework tears the session's tasks down.
ReceiverAlive(s) == phase[s] \in {"starting", "open"}

\* How many messages of type ty q holds.
Count(q, ty) == Cardinality({i \in 1..Len(q) : q[i].type = ty})

\* (self.on_output_callback)(m).await
Emit(s, m) == output' = [output EXCEPT ![s] = Append(@, m)]

\* ------------------------------------------------------------------- Init
\* The sessions' part of the state after Inlet::new.
NoSessions ==
    /\ session_info_map = <<>>
    /\ read_buf_len = [s \in SessionIds |-> 0]
    /\ wq = [s \in SessionIds |-> <<>>]
    /\ phase = [s \in SessionIds |-> "none"]
    /\ pc = [s \in SessionIds |-> "idle"]
    /\ frame = [s \in SessionIds |-> NoFrame]
    /\ wack = [s \in SessionIds |-> 0]
    /\ output = [s \in SessionIds |-> <<>>]
    /\ acked = [s \in SessionIds |-> 0]
    /\ decode_failed = {}
    /\ nevents = 0
    /\ arrived = [s \in SessionIds |-> <<>>]
    /\ tasks = {}
    /\ buffer = [s \in SessionIds |-> 0]
    /\ extracted = [s \in SessionIds |-> <<>>]
    /\ rpc = [s \in SessionIds |-> "read"]

\* Inlet::new followed by one successful start: the Inlet is running.
\* No Player constructed, and the state after TunnelManager::new over an
\* empty tunnel table.
ServerInit ==
    /\ players = {}
    /\ player_session_id = [p \in PlayerIds |-> 0]
    /\ player_tx = [p \in PlayerIds |-> None]
    /\ panicked = {}
    /\ tunnels = <<>>
    /\ db_rows = {}
    /\ db_next_id = 1
    /\ manager_result = [op |-> "new", result |-> "Ok"]

\* The lock of the registry and the lock of each delegate's read_buf_len.
RegistryLock == 0

BufLock(s) == s

Locks == {RegistryLock} \cup {BufLock(s) : s \in SessionIds}

Guard(t, mode) == [task |-> t, mode |-> mode]

NoCall == [sid |-> 0, ack |-> FALSE]

\* No guard held, no request pending, every task between calls.
LocksInit ==
    /\ holders = [l \in Locks |-> {}]
    /\ waiters = [l \in Locks |-> <<>>]
    /\ task_pc = [t \in LockTasks |-> "idle"]
    /\ task_call = [t \in LockTasks |-> NoCall]

Init ==
    /\ ServerInit
    /\ LocksInit
    /\ \E c \in Configs : is_compressed = c[1] /\ encryption_method = c[2]
    /\ shutdown_tx = TRUE
    /\ acceptor = "running"
    /\ notify = FALSE
    /\ stop_pc = "idle"
    /\ ncycles = 1
    /\ NoSessions

\* ------------------------------------------------- InletSession (delegate)
\* The record on_session_start inserts for session s.
SessionInfo(s) ==
    [is_compressed |-> is_compressed,
     encryption_method |-> encryption_method,
     encryption_key |-> generate_key(encryption_method, s)]

\* InletSession::new + on_session_start, up to the registry insert.  The
\* acceptor hands out session ids in increasing order.
on_session_start_insert(s) ==
    /\ acceptor = "running"
    /\ phase[s] = "none"
    /\ \A t \in SessionIds : t < s => phase[t] # "none"
    /\ session_info_map' =
         [t \in DOMAIN session_info_map \cup {s} |->
            IF t = s THEN SessionInfo(s) ELSE session_info_map[t]]
    /\ phase' = [phase EXCEPT ![s] = "starting"]
    /\ UNCHANGED <<locks, server, config, rdr, inlet, link, read_buf_len, wq, pc, frame, wack, output, acked,
                   decode_failed, nevents>>

\* Mutant: the key put into I2oConnect is generated anew.
StartMessageFreshKey(s) ==
    I2oConnect(s, is_compressed, encryption_method,
               generate_key(encryption_method, s + 1))

\* The message on_session_start emits.
StartMessage(s) ==
    I2oConnect(s, is_compressed, encryption_method,
               generate_key(encryption_method, s))

\* Mutant: on_session_start returns without emitting I2oConnect.
on_session_start_silent(s) ==
    /\ phase[s] = "starting"
    /\ phase' = [phase EXCEPT ![s] = "open"]
    /\ UNCHANGED <<locks, server, config, rdr, inlet, link, session_info_map, read_buf_len, wq, pc, frame, wack,
                   output, acked, decode_failed, nevents>>

\* on_session_start, the I2oConnect emission; the framework starts the
\* session's reader and writer once on_session_start has returned.
on_session_start_emit(s) ==
    /\ phase[s] = "starting"
    /\ Emit(s, StartMessage(s))
    /\ phase' = [phase EXCEPT ![s] = "open"]
    /\ UNCHANGED <<locks, server, config, rdr, inlet, link, session_info_map, read_buf_len, wq, pc, frame, wack,
                   acked, decode_failed, nevents>>

\* on_recv_frame, the transformation: compress (iff is_compressed), then
\* encrypt (iff the method is not None).
Transform(s, d) ==
    LET c == IF is_compressed THEN compress_data(d) ELSE d
    IN  IF encryption_method = "None" THEN c
        ELSE encrypt(generate_key(encryption_method, s), c)

\* Byte strings a peer may put into O2iRecvData: a plaintext, what each
\* session's far end would send, and a ciphertext of uncompressed data.
DataSet ==
    {Plain(1), encrypt(generate_key(encryption_method, 1), Plain(1))}
      \cup {Transform(s, Plain(1)) : s \in SessionIds}

\* The reader hands a frame of n raw bytes to on_recv_frame.
on_recv_frame_begin(s, n) ==
    /\ phase[s] = "open"
    /\ pc[s] = "idle"
    /\ nevents < MaxEvents
    /\ frame' = [frame EXCEPT ![s] = Transform(s, Plain(n))]
    /\ pc' = [pc EXCEPT ![s] = "wait"]
    /\ nevents' = nevents + 1
    /\ UNCHANGED <<locks, server, config, rdr, inlet, link, session_info_map, read_buf_len, wq, phase, wack,
                   output, acked, decode_failed>>

\* Mutant: the loop compares against twice the limit.
MustYieldLoose(cur) == cur > 2 * READ_BUF_MAX_LEN

\* Mutant: the loop's comparison is reversed.
MustYieldReversed(cur) == cur < READ_BUF_MAX_LEN

\* The loop condition of the backpressure wait.
MustYield(cur) == cur > READ_BUF_MAX_LEN

\* on_recv_frame, the backpressure wait: the loop is left by the first
\* evaluation of its condition that finds the counter at or below the limit.
on_recv_frame_wait(s) ==
    /\ phase[s] = "open"
    /\ pc[s] = "wait"
    /\ ~MustYield(read_buf_len[s])
    /\ pc' = [pc EXCEPT ![s] = "inc"]
    /\ UNCHANGED <<locks, server, config, rdr, inlet, link, session_info_map, read_buf_len, wq, phase, frame,
                   wack, output, acked, decode_failed, nevents>>

\* Mutant: the counter grows by the length of the frame as read.
AddFrameRaw(cur, f) == cur + f.n

\* The counter value on_recv_frame stores.
AddFrame(cur, f) == cur + ByteLen(f)

\* on_recv_frame, the increment under the counter's write lock.
on_recv_frame_add(s) ==
    /\ phase[s] = "open"
    /\ pc[s] = "inc"
    /\ read_buf_len' = [read_buf_len EXCEPT ![s] = AddFrame(@, frame[s])]
    /\ pc' = [pc EXCEPT ![s] = "emit"]
    /\ UNCHANGED <<locks, server, config, rdr, inlet, link, session_info_map, wq, phase, frame, wack, output,
                   acked, decode_failed, nevents>>

\* on_recv_frame, the I2oSendData emission.
on_recv_frame_emit(s) ==
    /\ phase[s] = "open"
    /\ pc[s] = "emit"
    /\ Emit(s, I2oSendData(s, frame[s]))
    /\ pc' = [pc EXCEPT ![s] = "idle"]
    /\ frame' = [frame EXCEPT ![s] = NoFrame]
    /\ UNCHANGED <<locks, server, config, rdr, inlet, link, session_info_map, read_buf_len, wq, phase, wack,
                   acked, decode_failed, nevents>>

\* Mutant: on_session_close leaves the registry entry in place.
on_session_close_keep(s) ==
    /\ phase[s] = "closing"
    /\ phase' = [phase EXCEPT ![s] = "removed"]
    /\ UNCHANGED <<locks, server, config, rdr, inlet, link, session_info_map, read_buf_len, wq, pc,
                   frame, wack, output, acked, decode_failed, nevents>>

\* on_session_close, the registry removal.
on_session_close_remove(s) ==
    /\ phase[s] = "closing"
    /\ session_info_map' =
         [t \in DOMAIN session_info_map \ {s} |-> session_info_map[t]]
    /\ phase' = [phase EXCEPT ![s] = "removed"]
    /\ UNCHANGED <<locks, server, config, rdr, inlet, link, read_buf_len, wq, pc, frame, wack, output, acked,
                   decode_failed, nevents>>

\* on_session_close, the I2oDisconnect emission.
on_session_close_emit(s) ==
    /\ phase[s] = "removed"
    /\ Emit(s, I2oDisconnect(s))
    /\ phase' = [phase EXCEPT ![s] = "closed"]
    /\ UNCHANGED <<locks, server, config, rdr, inlet, link, session_info_map, read_buf_len, wq, pc, frame, wack,
                   acked, decode_failed, nevents>>

\* ------------------------------------------ session framework (reader/writer)
\* Mutant: the teardown leaves the reader where it is.
TeardownLeavesReader(s) ==
    /\ phase' = [phase EXCEPT ![s] = "closing"]
    /\ UNCHANGED <<pc, frame>>
    /\ wq' = [wq EXCEPT ![s] = <<>>]
    /\ wack' = [wack EXCEPT ![s] = 0]

\* The session's tasks end: the reader is cancelled at the suspension point
\* it is at, the writer and the receiving end of its queue are dropped, and
\* the close path (on_session_close) is entered.
Teardown(s) ==
    /\ phase' = [phase EXCEPT ![s] = "closing"]
    /\ pc' = [pc EXCEPT ![s] = "stopped"]
    /\ frame' = [frame EXCEPT ![s] = NoFrame]
    /\ wq' = [wq EXCEPT ![s] = <<>>]
    /\ wack' = [wack EXCEPT ![s] = 0]

\* The writer takes Close from its queue and shuts the session down.
writer_close(s) ==
    /\ phase[s] = "open"
    /\ wack[s] = 0
    /\ wq[s] # <<>>
    /\ Head(wq[s]).type = "Close"
    /\ Teardown(s)
    /\ UNCHANGED <<locks, server, config, rdr, inlet, link, session_info_map, read_buf_len, output, acked,
                   decode_failed, nevents>>

\* The writer takes SendAndThen from its queue and writes the data.
writer_send(s) ==
    /\ phase[s] = "open"
    /\ wack[s] = 0
    /\ wq[s] # <<>>
    /\ Head(wq[s]).type = "SendAndThen"
    /\ wack' = [wack EXCEPT ![s] = Head(wq[s]).len]
    /\ wq' = [wq EXCEPT ![s] = Tail(@)]
    /\ UNCHANGED <<locks, server, config, rdr, inlet, link, session_info_map, read_buf_len, phase, pc, frame,
                   output, acked, decode_failed, nevents>>

\* The writer invokes the completion of the message it has written.
writer_then(s) ==
    /\ phase[s] = "open"
    /\ wack[s] # 0
    /\ Emit(s, I2oRecvDataResult(s, wack[s]))
    /\ wack' = [wack EXCEPT ![s] = 0]
    /\ UNCHANGED <<locks, server, config, rdr, inlet, link, session_info_map, read_buf_len, wq, phase, pc,
                   frame, acked, decode_failed, nevents>>

\* The client disconnects or a socket operation fails.
client_disconnect(s) ==
    /\ phase[s] = "open"
    /\ Teardown(s)
    /\ UNCHANGED <<locks, server, config, rdr, inlet, link, session_info_map, read_buf_len, output, acked,
                   decode_failed, nevents>>

\* ------------------------------------------------------ Inlet::input_internal
\* What one input_internal call does besides touching a counter: the value
\* it returns and the writer message it enqueues (none, or one).
Done == [result |-> "Ok", send |-> <<>>]

\* session.sender.send(msg)?: fails once the receiving end has been dropped.
SenderSend(s, msg) ==
    IF ReceiverAlive(s)
    THEN [result |-> "Ok", send |-> <<[to |-> s, msg |-> msg]>>]
    ELSE [result |-> "SendError", send |-> <<>>]

\* Mutant: the success flag is not looked at.
input_O2iConnectAnyResult(session_id, success) ==
    IF session_id \in DOMAIN session_info_map
    THEN SenderSend(session_id, WriterClose)
    ELSE Done

\* ProxyMessage::O2iConnect(session_id, success, error_msg)
input_O2iConnect(session_id, success) ==
    IF ~success /\ session_id \in DOMAIN session_info_map
    THEN SenderSend(session_id, WriterClose)
    ELSE Done

\* ProxyMessage::O2iDisconnect(session_id)
input_O2iDisconnect(session_id) ==
    IF session_id \in DOMAIN session_info_map
    THEN SenderSend(session_id, WriterClose)
    ELSE Done

\* Mutant: the decrement without the clamp.
SubAckUnclamped(cur, data_len) == cur - data_len

\* ProxyMessage::O2iSendDataResult(session_id, data_len): the new counter.
SubAck(cur, data_len) == IF cur <= data_len THEN 0 ELSE cur - data_len

\* Mutant: the length is taken after decrypt and decompress.
input_O2iRecvDataDecodedLen(session_id, data) ==
    IF session_id \in DOMAIN session_info_map
    THEN LET session == session_info_map[session_id]
             encrypted == session.encryption_method # "None"
             d1 == IF encrypted THEN decrypt(session.encryption_key, data)
                   ELSE data
             d2 == IF session.is_compressed THEN decompress_data(d1) ELSE d1
             data_len == ByteLen(d2)
         IN  IF encrypted /\ ~decrypt_ok(session.encryption_key, data)
             THEN [result |-> "DecryptError", send |-> <<>>]
             ELSE IF session.is_compressed /\ ~decompress_ok(d1)
             THEN [result |-> "DecompressError", send |-> <<>>]
             ELSE SenderSend(session_id, SendAndThen(d2, session_id, data_len))
    ELSE Done

\* Mutant: data for a session that is not registered is an error.
input_O2iRecvDataStrict(session_id, data) ==
    [result |-> IF session_id \in DOMAIN session_info_map THEN "Ok"
                ELSE "UnknownSession",
     send |-> <<>>]

\* ProxyMessage::O2iRecvData(session_id, data)
input_O2iRecvData(session_id, data) ==
    IF session_id \in DOMAIN session_info_map
    THEN LET session == session_info_map[session_id]
             data_len == ByteLen(data)
             encrypted == session.encryption_method # "None"
             d1 == IF encrypted THEN decrypt(session.encryption_key, data)
                   ELSE data
             d2 == IF session.is_compressed THEN decompress_data(d1) ELSE d1
         IN  IF encrypted /\ ~decrypt_ok(session.encryption_key, data)
             THEN [result |-> "DecryptError", send |-> <<>>]
             ELSE IF session.is_compressed /\ ~decompress_ok(d1)
             THEN [result |-> "DecompressError", send |-> <<>>]
             ELSE SenderSend(session_id, SendAndThen(d2, session_id, data_len))
    ELSE Done

\* Mutant: the catch-all arm returns Ok.
input_internal_lenient(m) ==
    CASE m.type = "O2iConnect" -> input_O2iConnect(m.sid, m.success)
      [] m.type = "O2iDisconnect" -> input_O2iDisconnect(m.sid)
      [] m.type = "O2iSendDataResult" -> Done
      [] m.type = "O2iRecvData" -> input_O2iRecvData(m.sid, m.data)
      [] OTHER -> Done

\* The match of input_internal.
input_internal(m) ==
    CASE m.type = "O2iConnect" -> input_O2iConnect(m.sid, m.success)
      [] m.type = "O2iDisconnect" -> input_O2iDisconnect(m.sid)
      [] m.type = "O2iSendDataResult" -> Done
      [] m.type = "O2iRecvData" -> input_O2iRecvData(m.sid, m.data)
      [] OTHER -> [result |-> "Unknown message", send |-> <<>>]

\* Whether input_internal(m) reaches the counter update.
AppliesAck(m) ==
    m.type = "O2iSendDataResult" /\ m.sid \in DOMAIN session_info_map

\* Inlet::input, one call.  The registry read lock is held for the whole
\* arm, and the counter's write lock for the update.
input(m) ==
    LET o == input_internal(m)
        failed == o.result \in {"DecryptError", "DecompressError"}
        n == Len(o.send) + (IF AppliesAck(m) \/ failed THEN 1 ELSE 0)
    IN  /\ UNCHANGED <<locks, server, config, rdr, inlet, session_info_map, phase, pc, frame, wack,
                       output>>
        /\ nevents + n <= MaxEvents
        /\ nevents' = nevents + n
        /\ wq' = IF o.send = <<>> THEN wq
                 ELSE [wq EXCEPT ![o.send[1].to] = Append(@, o.send[1].msg)]
        /\ IF AppliesAck(m)
           THEN /\ read_buf_len' =
                     [read_buf_len EXCEPT ![m.sid] = SubAck(@, m.len)]
                /\ acked' = [acked EXCEPT ![m.sid] = @ + m.len]
           ELSE UNCHANGED <<read_buf_len, acked>>
        /\ decode_failed' =
             IF failed THEN decode_failed \cup {m.sid} ELSE decode_failed

\* Inlet::input called and awaited by the caller, one message after another.
input_call(m) == input(m) /\ UNCHANGED link

\* Payload lengths of the I2oSendData messages emitted for session s.
SentLens(s) ==
    LET q == SelectSeq(output[s], LAMBDA m : m.type = "I2oSendData")
    IN  [i \in 1..Len(q) |-> ByteLen(q[i].data)]

RECURSIVE SumAt(_, _)
\* Sum of the entries of lens at the indices in I.
SumAt(lens, I) ==
    IF I = {} THEN 0
    ELSE LET i == CHOOSE x \in I : TRUE
         IN  lens[i] + SumAt(lens, I \ {i})

\* Lengths a well-behaved peer may acknowledge next: the length of an emitted
\* I2oSendData that the acknowledgements applied so far have not answered.
Answerable(s) ==
    LET lens == SentLens(s)
    IN  {lens[j] : j \in {k \in 1..Len(lens) :
                            \E I \in SUBSET (1..Len(lens) \ {k}) :
                                SumAt(lens, I) = acked[s]}}

\* The peer has written an I2oSendData payload of session s and answers it:
\* O2iSendDataResult(s, n) with n the payload's length is given to input().
peer_ack(s) ==
    /\ \E n \in Answerable(s) : input(O2iSendDataResult(s, n))
    /\ UNCHANGED link

\* Payloads the peer sends for one session (told apart by their content).
PayloadIds == {1, 2}

\* O2iRecvData(s, payload n) arrives on the peer link and its input() call
\* is spawned as an independent task.
peer_deliver(s, n) ==
    /\ phase[s] = "open"
    /\ \A i \in 1..Len(arrived[s]) : arrived[s][i] # n
    /\ Cardinality(tasks) + nevents < MaxEvents
    /\ arrived' = [arrived EXCEPT ![s] = Append(@, n)]
    /\ tasks' = tasks \cup {O2iRecvData(s, Transform(s, Plain(n)))}
    /\ UNCHANGED <<locks, server, config, rdr, inlet, session_info_map, read_buf_len, wq, phase, pc,
                   frame, wack, output, acked, decode_failed, nevents>>

\* The executor polls one of the spawned input() tasks; it runs to its end.
dispatch_run(m) ==
    /\ m \in tasks
    /\ input(m)
    /\ tasks' = tasks \ {m}
    /\ UNCHANGED arrived

\* Session ids a message from the wire may carry.
InputIds == SessionIds \cup {999}

\* Messages the peer link may deliver to input().
InputMessages ==
    {O2iConnect(s, ok) : s \in InputIds, ok \in BOOLEAN}
      \cup {O2iDisconnect(s) : s \in InputIds}
      \cup {O2iSendDataResult(s, n) : s \in InputIds, n \in AckLens}
      \cup {O2iRecvData(s, d) : s \in InputIds, d \in DataSet}
      \cup {I2oDisconnect(s) : s \in InputIds}

\* --------------------------------------------------- reader: frame extraction
\* Option<Vec<u8>> results of on_try_extract_frame; a frame is told by its
\* length.
NoneFrame == [some |-> FALSE, len |-> 0]

SomeFrame(n) == [some |-> TRUE, len |-> n]

\* InletSession::on_try_extract_frame on a buffer of b bytes: the frame it
\* returns and the buffer it leaves.
on_try_extract_frame(b) == [frame |-> SomeFrame(b), buffer |-> 0]

\* The reader reads k bytes from the socket into its buffer and enters the
\* extraction loop.
socket_read(s, k) ==
    /\ rpc[s] = "read"
    /\ buffer' = [buffer EXCEPT ![s] = @ + k]
    /\ rpc' = [rpc EXCEPT ![s] = "extract"]
    /\ UNCHANGED <<locks, server, config, inlet, link, extracted, session_info_map,
                   read_buf_len, wq, phase, pc, frame, wack, output, acked,
                   decode_failed, nevents>>

\* One turn of the reader's loop: it calls on_try_extract_frame; on no frame
\* it goes back to reading, on a frame it hands the frame on and calls again.
\* (The history is a window: once it holds MaxExtract frames it starts over.)
reader_extract(s) ==
    LET r == on_try_extract_frame(buffer[s])
    IN  /\ rpc[s] = "extract"
        /\ buffer' = [buffer EXCEPT ![s] = r.buffer]
        /\ IF r.frame = NoneFrame
           THEN /\ rpc' = [rpc EXCEPT ![s] = "read"]
                /\ UNCHANGED extracted
           ELSE /\ extracted' =
                     IF Len(extracted[s]) < MaxExtract
                     THEN [extracted EXCEPT ![s] = Append(@, r.frame.len)]
                     ELSE [extracted EXCEPT ![s] = <<r.frame.len>>]
                /\ UNCHANGED rpc
        /\ UNCHANGED <<locks, server, config, inlet, link, session_info_map, read_buf_len, wq,
                       phase, pc, frame, wack, output, acked, decode_failed,
                       nevents>>

\* ------------------------------------------------------- Inlet life cycle
\* Proxy types start() may be given, and whether the bind succeeds.
InletProxyTypes == {"TCP", "UDP", "SOCKS5"}

\* Mutant: start does not look at shutdown_tx.
start_internal_unguarded(inlet_proxy_type, bind_ok) ==
    IF inlet_proxy_type = "SOCKS5"
    THEN [result |-> "SOCKS5 (Not implemented)", bound |-> FALSE,
          recorded |-> FALSE, spawned |-> FALSE]
    ELSE IF ~bind_ok
    THEN [result |-> "BindError", bound |-> FALSE,
          recorded |-> FALSE, spawned |-> FALSE]
    ELSE [result |-> "Ok", bound |-> TRUE, recorded |-> TRUE, spawned |-> TRUE]

\* Mutant: the shutdown sink is recorded before the match on the type.
start_internal_records_early(inlet_proxy_type, bind_ok) ==
    IF shutdown_tx
    THEN [result |-> "Repeated start", bound |-> FALSE,
          recorded |-> FALSE, spawned |-> FALSE]
    ELSE IF inlet_proxy_type = "SOCKS5"
    THEN [result |-> "SOCKS5 (Not implemented)", bound |-> FALSE,
          recorded |-> TRUE, spawned |-> FALSE]
    ELSE IF ~bind_ok
    THEN [result |-> "BindError", bound |-> FALSE,
          recorded |-> TRUE, spawned |-> FALSE]
    ELSE [result |-> "Ok", bound |-> TRUE, recorded |-> TRUE, spawned |-> TRUE]

\* What one Inlet::start call does: the value it returns, whether a listener
\* is bound, whether self.shutdown_tx is set, whether the acceptor task is
\* spawned.
start_internal(inlet_proxy_type, bind_ok) ==
    IF shutdown_tx
    THEN [result |-> "Repeated start", bound |-> FALSE,
          recorded |-> FALSE, spawned |-> FALSE]
    ELSE IF inlet_proxy_type = "SOCKS5"
    THEN [result |-> "SOCKS5 (Not implemented)", bound |-> FALSE,
          recorded |-> FALSE, spawned |-> FALSE]
    ELSE IF ~bind_ok
    THEN [result |-> "BindError", bound |-> FALSE,
          recorded |-> FALSE, spawned |-> FALSE]
    ELSE [result |-> "Ok", bound |-> TRUE, recorded |-> TRUE, spawned |-> TRUE]

\* Inlet::start, one call.  start takes &mut self, so it cannot run while a
\* stop() is waiting.
start(inlet_proxy_type, bind_ok, c) ==
    LET o == start_internal(inlet_proxy_type, bind_ok)
    IN  /\ stop_pc = "idle"
        /\ shutdown_tx' = (shutdown_tx \/ o.recorded)
        /\ IF o.spawned
           THEN /\ ncycles < MaxCycles
                /\ ncycles' = ncycles + 1
                /\ acceptor' = "running"
                /\ is_compressed' = c[1]
                /\ encryption_method' = c[2]
           ELSE UNCHANGED <<ncycles, acceptor, config>>
        /\ UNCHANGED <<locks, server, notify, stop_pc, rdr, link, session_info_map, read_buf_len, wq,
                       phase, pc, frame, wack, output, acked, decode_failed,
                       nevents>>

\* Mutant: stop returns as soon as it has dropped the shutdown sink.
stop_no_wait ==
    /\ stop_pc = "idle"
    /\ shutdown_tx
    /\ shutdown_tx' = FALSE
    /\ UNCHANGED <<locks, server, config, rdr, link, acceptor, notify, stop_pc, ncycles, session_info_map,
                   read_buf_len, wq, phase, pc, frame, wack, output, acked,
                   decode_failed, nevents>>

\* Inlet::stop up to notified().await: on a running Inlet the shutdown sink
\* is taken and dropped.  On an Inlet that is not running stop returns at
\* once and changes nothing.
stop ==
    /\ stop_pc = "idle"
    /\ IF shutdown_tx
       THEN /\ shutdown_tx' = FALSE
            /\ stop_pc' = "waiting"
       ELSE UNCHANGED <<shutdown_tx, stop_pc>>
    /\ UNCHANGED <<locks, server, config, rdr, link, acceptor, notify, ncycles, session_info_map,
                   read_buf_len, wq, phase, pc, frame, wack, output, acked,
                   decode_failed, nevents>>

\* Inlet::stop, self.notify.notified().await returns: the permit is consumed.
stop_notified ==
    /\ stop_pc = "waiting"
    /\ notify
    /\ notify' = FALSE
    /\ stop_pc' = "idle"
    /\ UNCHANGED <<locks, server, config, rdr, link, shutdown_tx, acceptor, ncycles, session_info_map,
                   read_buf_len, wq, phase, pc, frame, wack, output, acked,
                   decode_failed, nevents>>

\* The acceptor's shutdown future completes: shutdown_rx.recv() returns once
\* the only sender has been dropped.  The acceptor stops accepting.
acceptor_shutdown ==
    /\ acceptor = "running"
    /\ ~shutdown_tx
    /\ acceptor' = "draining"
    /\ UNCHANGED <<locks, server, config, rdr, link, shutdown_tx, notify, stop_pc, ncycles,
                   session_info_map, read_buf_len, wq, phase, pc, frame, wack,
                   output, acked, decode_failed, nevents>>

\* The acceptor wakes a session's workers for shutdown.
acceptor_wake(s) ==
    /\ acceptor = "draining"
    /\ phase[s] = "open"
    /\ Teardown(s)
    /\ UNCHANGED <<locks, server, config, rdr, inlet, link, session_info_map, read_buf_len, output, acked,
                   decode_failed, nevents>>

\* Mutant: the acceptor does not await its sessions before it returns.
acceptor_exit_early ==
    /\ acceptor = "draining"
    /\ acceptor' = "none"
    /\ notify' = TRUE
    /\ UNCHANGED <<locks, server, config, rdr, link, shutdown_tx, stop_pc, ncycles, session_info_map,
                   read_buf_len, wq, phase, pc, frame, wack, output, acked,
                   decode_failed, nevents>>

\* run_server returns once every session has unwound; the spawned task then
\* calls worker_notify.notify_one().
acceptor_exit ==
    /\ acceptor = "draining"
    /\ \A s \in SessionIds : phase[s] \in {"none", "closed"}
    /\ acceptor' = "none"
    /\ notify' = TRUE
    /\ UNCHANGED <<locks, server, config, rdr, link, shutdown_tx, stop_pc, ncycles, session_info_map,
                   read_buf_len, wq, phase, pc, frame, wack, output, acked,
                   decode_failed, nevents>>

\* ------------------------------------------------------------------- locks
\* tokio's RwLock grants in request order: a writer needs the lock free and
\* no older request pending, a reader needs no writer holding it and no
\* older writer pending.
Grantable(t, l) ==
    \E i \in 1..Len(waiters[l]) :
        /\ waiters[l][i].task = t
        /\ IF waiters[l][i].mode = "write"
           THEN i = 1 /\ holders[l] = {}
           ELSE /\ \A h \in holders[l] : h.mode = "read"
                /\ \A j \in 1..(i - 1) : waiters[l][j].mode = "read"

Enqueued(w, l, t, mode) == [w EXCEPT ![l] = Append(@, Guard(t, mode))]

Dequeued(w, l, t) == [w EXCEPT ![l] = SelectSeq(@, LAMBDA e : e.task # t)]

\* The guards of l once the pending request of t is granted.
Granted(h, l, t) ==
    [h EXCEPT ![l] = @ \cup {e \in {waiters[l][i] : i \in 1..Len(waiters[l])} :
                               e.task = t}]

Released(h, l, t) == [h EXCEPT ![l] = {e \in @ : e.task # t}]

\* What the lock-level actions leave alone.
LockFrame ==
    UNCHANGED <<server, config, inlet, link, rdr, read_buf_len, wq, phase, pc, frame,
                wack, output, acked, decode_failed, nevents>>

\* Input messages whose arm reads the registry: all but O2iConnect with
\* success and the messages of the catch-all arm.
LockingInputs ==
    {m \in InputMessages :
        \/ m.type \in {"O2iDisconnect", "O2iSendDataResult", "O2iRecvData"}
        \/ m.type = "O2iConnect" /\ ~m.success}

\* input(m) on task t asks for the registry read lock.
input_lock_registry(t, m) ==
    /\ task_pc[t] = "idle"
    /\ waiters' = Enqueued(waiters, RegistryLock, t, "read")
    /\ task_pc' = [task_pc EXCEPT ![t] = "input_registry_wait"]
    /\ task_call' = [task_call EXCEPT
                        ![t] = [sid |-> m.sid, ack |-> m.type = "O2iSendDataResult"]]
    /\ UNCHANGED <<holders, session_info_map>>
    /\ LockFrame

\* The registry read lock is granted; the O2iSendDataResult arm of a
\* registered session goes on to ask for the session's read_buf_len write
\* lock, with the registry guard alive.
input_registry_granted(t) ==
    /\ task_pc[t] = "input_registry_wait"
    /\ Grantable(t, RegistryLock)
    /\ holders' = Granted(holders, RegistryLock, t)
    /\ IF task_call[t].ack /\ task_call[t].sid \in DOMAIN session_info_map
       THEN /\ waiters' = Enqueued(Dequeued(waiters, RegistryLock, t),
                                   BufLock(task_call[t].sid), t, "write")
            /\ task_pc' = [task_pc EXCEPT ![t] = "input_buf_wait"]
       ELSE /\ waiters' = Dequeued(waiters, RegistryLock, t)
            /\ task_pc' = [task_pc EXCEPT ![t] = "input_registry_held"]
    /\ UNCHANGED <<task_call, session_info_map>>
    /\ LockFrame

input_buf_granted(t) ==
    /\ task_pc[t] = "input_buf_wait"
    /\ Grantable(t, BufLock(task_call[t].sid))
    /\ holders' = Granted(holders, BufLock(task_call[t].sid), t)
    /\ waiters' = Dequeued(waiters, BufLock(task_call[t].sid), t)
    /\ task_pc' = [task_pc EXCEPT ![t] = "input_buf_held"]
    /\ UNCHANGED <<task_call, session_info_map>>
    /\ LockFrame

\* drop(read_buf_len).
input_buf_release(t) ==
    /\ task_pc[t] = "input_buf_held"
    /\ holders' = Released(holders, BufLock(task_call[t].sid), t)
    /\ task_pc' = [task_pc EXCEPT ![t] = "input_registry_held"]
    /\ UNCHANGED <<waiters, task_call, session_info_map>>
    /\ LockFrame

\* The arm ends and the registry guard goes out of scope.
input_registry_release(t) ==
    /\ task_pc[t] = "input_registry_held"
    /\ holders' = Released(holders, RegistryLock, t)
    /\ task_pc' = [task_pc EXCEPT ![t] = "idle"]
    /\ task_call' = [task_call EXCEPT ![t] = NoCall]
    /\ UNCHANGED <<waiters, session_info_map>>
    /\ LockFrame

\* on_recv_frame of session s on task t asks for the read lock of the
\* counter (the loop's condition).
on_recv_frame_lock_read(t, s) ==
    /\ task_pc[t] = "idle"
    /\ waiters' = Enqueued(waiters, BufLock(s), t, "read")
    /\ task_pc' = [task_pc EXCEPT ![t] = "recv_read_wait"]
    /\ task_call' = [task_call EXCEPT ![t] = [sid |-> s, ack |-> FALSE]]
    /\ UNCHANGED <<holders, session_info_map>>
    /\ LockFrame

on_recv_frame_read_granted(t) ==
    /\ task_pc[t] = "recv_read_wait"
    /\ Grantable(t, BufLock(task_call[t].sid))
    /\ holders' = Granted(holders, BufLock(task_call[t].sid), t)
    /\ waiters' = Dequeued(waiters, BufLock(task_call[t].sid), t)
    /\ task_pc' = [task_pc EXCEPT ![t] = "recv_read_held"]
    /\ UNCHANGED <<task_call, session_info_map>>
    /\ LockFrame

\* The condition has been evaluated and its read guard is dropped.
on_recv_frame_read_release(t) ==
    /\ task_pc[t] = "recv_read_held"
    /\ holders' = Released(holders, BufLock(task_call[t].sid), t)
    /\ task_pc' = [task_pc EXCEPT ![t] = "recv_checked"]
    /\ UNCHANGED <<waiters, task_call, session_info_map>>
    /\ LockFrame

\* The counter was above the limit: after yield_now the condition is
\* evaluated again.  (The counter's value is not part of this level; both
\* outcomes of the comparison are taken.)
on_recv_frame_yield(t) ==
    /\ task_pc[t] = "recv_checked"
    /\ waiters' = Enqueued(waiters, BufLock(task_call[t].sid), t, "read")
    /\ task_pc' = [task_pc EXCEPT ![t] = "recv_read_wait"]
    /\ UNCHANGED <<holders, task_call, session_info_map>>
    /\ LockFrame

\* The counter was within the limit: ask for its write lock.
on_recv_frame_lock_write(t) ==
    /\ task_pc[t] = "recv_checked"
    /\ waiters' = Enqueued(waiters, BufLock(task_call[t].sid), t, "write")
    /\ task_pc' = [task_pc EXCEPT ![t] = "recv_write_wait"]
    /\ UNCHANGED <<holders, task_call, session_info_map>>
    /\ LockFrame

\* Mutant: with the write guard of the counter granted, on_recv_frame asks
\* for the registry read lock.
on_recv_frame_write_granted_then_registry(t) ==
    /\ task_pc[t] = "recv_write_wait"
    /\ Grantable(t, BufLock(task_call[t].sid))
    /\ holders' = Granted(holders, BufLock(task_call[t].sid), t)
    /\ waiters' = Enqueued(Dequeued(waiters, BufLock(task_call[t].sid), t),
                           RegistryLock, t, "read")
    /\ task_pc' = [task_pc EXCEPT ![t] = "input_registry_wait"]
    /\ UNCHANGED <<task_call, session_info_map>>
    /\ LockFrame

on_recv_frame_write_granted(t) ==
    /\ task_pc[t] = "recv_write_wait"
    /\ Grantable(t, BufLock(task_call[t].sid))
    /\ holders' = Granted(holders, BufLock(task_call[t].sid), t)
    /\ waiters' = Dequeued(waiters, BufLock(task_call[t].sid), t)
    /\ task_pc' = [task_pc EXCEPT ![t] = "recv_write_held"]
    /\ UNCHANGED <<task_call, session_info_map>>
    /\ LockFrame

\* drop(read_buf_len), before the frame is emitted.
on_recv_frame_write_release(t) ==
    /\ task_pc[t] = "recv_write_held"
    /\ holders' = Released(holders, BufLock(task_call[t].sid), t)
    /\ task_pc' = [task_pc EXCEPT ![t] = "idle"]
    /\ task_call' = [task_call EXCEPT ![t] = NoCall]
    /\ UNCHANGED <<waiters, session_info_map>>
    /\ LockFrame

\* on_session_start of session s on task t asks for the registry write lock.
on_session_start_lock(t, s) ==
    /\ task_pc[t] = "idle"
    /\ waiters' = Enqueued(waiters, RegistryLock, t, "write")
    /\ task_pc' = [task_pc EXCEPT ![t] = "start_wait"]
    /\ task_call' = [task_call EXCEPT ![t] = [sid |-> s, ack |-> FALSE]]
    /\ UNCHANGED <<holders, session_info_map>>
    /\ LockFrame

on_session_start_granted(t) ==
    /\ task_pc[t] = "start_wait"
    /\ Grantable(t, RegistryLock)
    /\ holders' = Granted(holders, RegistryLock, t)
    /\ waiters' = Dequeued(waiters, RegistryLock, t)
    /\ task_pc' = [task_pc EXCEPT ![t] = "start_held"]
    /\ UNCHANGED <<task_call, session_info_map>>
    /\ LockFrame

\* The insert, and the end of the statement that holds the guard.
on_session_start_release(t) ==
    /\ task_pc[t] = "start_held"
    /\ session_info_map' =
         [k \in DOMAIN session_info_map \cup {task_call[t].sid} |->
            IF k = task_call[t].sid THEN SessionInfo(k) ELSE session_info_map[k]]
    /\ holders' = Released(holders, RegistryLock, t)
    /\ task_pc' = [task_pc EXCEPT ![t] = "idle"]
    /\ task_call' = [task_call EXCEPT ![t] = NoCall]
    /\ UNCHANGED waiters
    /\ LockFrame

\* on_session_close of session s on task t asks for the registry write lock.
on_session_close_lock(t, s) ==
    /\ task_pc[t] = "idle"
    /\ waiters' = Enqueued(waiters, RegistryLock, t, "write")
    /\ task_pc' = [task_pc EXCEPT ![t] = "close_wait"]
    /\ task_call' = [task_call EXCEPT ![t] = [sid |-> s, ack |-> FALSE]]
    /\ UNCHANGED <<holders, session_info_map>>
    /\ LockFrame

on_session_close_granted(t) ==
    /\ task_pc[t] = "close_wait"
    /\ Grantable(t, RegistryLock)
    /\ holders' = Granted(holders, RegistryLock, t)
    /\ waiters' = Dequeued(waiters, RegistryLock, t)
    /\ task_pc' = [task_pc EXCEPT ![t] = "close_held"]
    /\ UNCHANGED <<task_call, session_info_map>>
    /\ LockFrame

\* The remove, and the end of the statement that holds the guard.
on_session_close_release(t) ==
    /\ task_pc[t] = "close_held"
    /\ session_info_map' =
         [k \in DOMAIN session_info_map \ {task_call[t].sid} |-> session_info_map[k]]
    /\ holders' = Released(holders, RegistryLock, t)
    /\ task_pc' = [task_pc EXCEPT ![t] = "idle"]
    /\ task_call' = [task_call EXCEPT ![t] = NoCall]
    /\ UNCHANGED waiters
    /\ LockFrame

\* ------------------------------------------------------------------ Player
\* Player::new(p): tx is None and session_id is the literal 032, the
\* decimal number thirty-two.
Player_new(p) ==
    /\ p \notin players
    /\ players' = players \cup {p}
    /\ player_tx' = [player_tx EXCEPT ![p] = None]
    /\ player_session_id' = [player_session_id EXCEPT ![p] = 32]
    /\ UNCHANGED <<panicked, manager, proxy>>

is_online(p) == player_session_id[p] > 0

\* The fields after reset_session_info.
reset_session_info(p) ==
    /\ player_session_id' = [player_session_id EXCEPT ![p] = 0]
    /\ player_tx' = [player_tx EXCEPT ![p] = None]

\* on_connect_session(session_id, tx) on Player p: the assertion comes first,
\* and a failed assertion panics before any field is written.
on_connect_session(p, session_id, tx) ==
    /\ p \in players
    /\ IF is_online(p) # FALSE
       THEN /\ panicked' = panicked \cup {p}
            /\ UNCHANGED <<player_session_id, player_tx>>
       ELSE /\ player_session_id' = [player_session_id EXCEPT ![p] = session_id]
            /\ player_tx' = [player_tx EXCEPT ![p] = Some(tx)]
            /\ UNCHANGED panicked
    /\ UNCHANGED <<players, manager, proxy>>

on_disconnect_session(p) ==
    /\ p \in players
    /\ reset_session_info(p)
    /\ UNCHANGED <<players, panicked, manager, proxy>>

on_terminate_old_session(p) ==
    /\ p \in players
    /\ reset_session_info(p)
    /\ UNCHANGED <<players, panicked, manager, proxy>>

\* ----------------------------------------------------------- TunnelManager
\* The port of an address as Option<u16>: the number after the colon when it
\* is a u16.
get_tunnel_address_port(addr) ==
    IF addr.port \in 0..65535 THEN Some(addr.port) ELSE None

is_valid_tunnel_source_address(addr) ==
    addr.host # "" /\ get_tunnel_address_port(addr) # None

is_valid_tunnel_endpoint_address(addr) ==
    addr.host # "" /\ get_tunnel_address_port(addr) # None

\* tunnel::Model values given to add_tunnel and update_tunnel.
TunnelModels ==
    [id : 0..MaxTunnelId, sender : TunnelSenders, source : SourceAddrs,
     endpoint : EndpointAddrs]

\* Mutant: the detection compares the whole source address.
port_conflict_detection_by_address(ts, sender, source, tunnel_id) ==
    \E i \in 1..Len(ts) :
        /\ ts[i].sender = sender
        /\ tunnel_id # Some(ts[i].id)
        /\ ts[i].source = source

\* port_conflict_detection over the list ts, with port the port of source.
port_conflict_detection(ts, sender, source, tunnel_id) ==
    \E i \in 1..Len(ts) :
        /\ ts[i].sender = sender
        /\ tunnel_id # Some(ts[i].id)
        /\ get_tunnel_address_port(ts[i].source) = get_tunnel_address_port(source)

\* The first index of the tunnel with this id, 0 when there is none.
position(ts, id) ==
    IF \E i \in 1..Len(ts) : ts[i].id = id
    THEN CHOOSE i \in 1..Len(ts) :
             ts[i].id = id /\ \A j \in 1..(i - 1) : ts[j].id # id
    ELSE 0

\* Vec::remove.
remove(ts, index) ==
    [i \in 1..(Len(ts) - 1) |-> IF i < index THEN ts[i] ELSE ts[i + 1]]

ManagerState(ts, rows, next) == [tunnels |-> ts, db_rows |-> rows, db_next_id |-> next]

Outcome(result, st) == [result |-> result, state |-> st]

\* add_tunnel(tunnel) on the state st; db_ok tells whether the insert
\* succeeds.
add_tunnel_internal(st, tunnel, db_ok) ==
    IF \/ ~is_valid_tunnel_source_address(tunnel.source)
       \/ ~is_valid_tunnel_endpoint_address(tunnel.endpoint)
    THEN Outcome("Address format error", st)
    ELSE IF port_conflict_detection(st.tunnels, tunnel.sender, tunnel.source, None)
    THEN Outcome("Port Conflict", st)
    ELSE IF ~db_ok
    THEN Outcome("DbErr", st)
    ELSE Outcome("Ok",
                 ManagerState(Append(st.tunnels, [tunnel EXCEPT !.id = st.db_next_id]),
                              st.db_rows \cup {st.db_next_id},
                              st.db_next_id + 1))

\* delete_tunnel(tunnel_id) on the state st; db_ok tells whether the delete
\* statement runs.
delete_tunnel_internal(st, tunnel_id, db_ok) ==
    IF ~db_ok
    THEN Outcome("DbErr", st)
    ELSE IF tunnel_id \notin st.db_rows
    THEN Outcome("delete_tunnel: rows_affected", st)
    ELSE LET index == position(st.tunnels, tunnel_id)
             rows == st.db_rows \ {tunnel_id}
         IN  IF index # 0
             THEN Outcome("Ok", ManagerState(remove(st.tunnels, index), rows,
                                             st.db_next_id))
             ELSE Outcome("Ok", ManagerState(st.tunnels, rows, st.db_next_id))

\* update_tunnel(tunnel) on the state st; db_ok tells whether the find and
\* the update succeed.
update_tunnel_internal(st, tunnel, db_ok) ==
    IF \/ ~is_valid_tunnel_source_address(tunnel.source)
       \/ ~is_valid_tunnel_endpoint_address(tunnel.endpoint)
    THEN Outcome("Address format error", st)
    ELSE IF port_conflict_detection(st.tunnels, tunnel.sender, tunnel.source,
                                    Some(tunnel.id))
    THEN Outcome("Port Conflict", st)
    ELSE LET index == position(st.tunnels, tunnel.id)
         IN  IF index # 0
             THEN IF ~db_ok
                  THEN Outcome("DbErr", st)
                  ELSE IF tunnel.id \notin st.db_rows
                  THEN Outcome("Can't find tunnel", st)
                  ELSE Outcome("Ok",
                               ManagerState([st.tunnels EXCEPT ![index] = tunnel],
                                            st.db_rows, st.db_next_id))
             ELSE Outcome("Unable to find tunnel_id", st)

\* The TunnelManager and its table as one value.
Manager == ManagerState(tunnels, db_rows, db_next_id)

\* A call's outcome becomes the state.
Becomes(op, o) ==
    /\ tunnels' = o.state.tunnels
    /\ db_rows' = o.state.db_rows
    /\ db_next_id' = o.state.db_next_id
    /\ manager_result' = [op |-> op, result |-> o.result]
    /\ UNCHANGED <<player, proxy>>

add_tunnel(tunnel, db_ok) ==
    /\ db_next_id <= MaxTunnelId
    /\ Becomes("add_tunnel", add_tunnel_internal(Manager, tunnel, db_ok))

delete_tunnel(tunnel_id, db_ok) ==
    Becomes("delete_tunnel", delete_tunnel_internal(Manager, tunnel_id, db_ok))

update_tunnel(tunnel, db_ok) ==
    Becomes("update_tunnel", update_tunnel_internal(Manager, tunnel, db_ok))

\* ------------------------------------------------------------ specification
Next ==
    \/ \E s \in SessionIds : on_session_start_insert(s)
    \/ \E s \in SessionIds : on_session_start_emit(s)
    \/ \E s \in SessionIds, n \in FrameLens : on_recv_frame_begin(s, n)
    \/ \E s \in SessionIds : on_recv_frame_wait(s)
    \/ \E s \in SessionIds : on_recv_frame_add(s)
    \/ \E s \in SessionIds : on_recv_frame_emit(s)
    \/ \E s \in SessionIds : writer_close(s)
    \/ \E s \in SessionIds : writer_send(s)
    \/ \E s \in SessionIds : writer_then(s)
    \/ \E s \in SessionIds : client_disconnect(s)
    \/ \E s \in SessionIds : on_session_close_remove(s)
    \/ \E s \in SessionIds : on_session_close_emit(s)
    \/ \E m \in InputMessages : input_call(m)

Spec == Init /\ [][Next]_vars

\* The executor runs every task that can take a step: the readers, the
\* writers and the delegates' start and close paths.  Nothing obliges the
\* client or the peer to send anything.
Fairness ==
    \A s \in SessionIds :
        /\ WF_vars(on_session_start_emit(s))
        /\ WF_vars(on_recv_frame_wait(s))
        /\ WF_vars(on_recv_frame_add(s))
        /\ WF_vars(on_recv_frame_emit(s))
        /\ WF_vars(writer_close(s))
        /\ WF_vars(writer_send(s))
        /\ WF_vars(writer_then(s))
        /\ WF_vars(on_session_close_remove(s))
        /\ WF_vars(on_session_close_emit(s))

FairSpec == Spec /\ Fairness

\* on_session_close is called once more on a delegate whose close path has
\* already run.
on_session_close_again(s) ==
    /\ phase[s] = "closed"
    /\ Count(output[s], "I2oDisconnect") <= MaxDupClose
    /\ phase' = [phase EXCEPT ![s] = "closing"]
    /\ UNCHANGED <<locks, server, config, rdr, inlet, link, session_info_map, read_buf_len, wq, pc, frame, wack,
                   output, acked, decode_failed, nevents>>

NextDup ==
    \/ Next
    \/ \E s \in SessionIds : on_session_close_again(s)

\* The sessions as the framework drives them, plus duplicate close calls.
SpecDup == Init /\ [][NextDup]_vars

\* The state after Inlet::new: nothing started, nothing captured yet.
LifeInit ==
    /\ ServerInit
    /\ LocksInit
    /\ is_compressed = FALSE
    /\ encryption_method = "None"
    /\ shutdown_tx = FALSE
    /\ acceptor = "none"
    /\ notify = FALSE
    /\ stop_pc = "idle"
    /\ ncycles = 0
    /\ NoSessions

LifeNext ==
    \/ \E t \in InletProxyTypes, b \in BOOLEAN, c \in Configs : start(t, b, c)
    \/ stop
    \/ stop_notified
    \/ acceptor_shutdown
    \/ \E s \in SessionIds : acceptor_wake(s)
    \/ acceptor_exit
    \/ \E s \in SessionIds : on_session_start_insert(s)
    \/ \E s \in SessionIds : on_session_start_emit(s)
    \/ \E s \in SessionIds, n \in FrameLens : on_recv_frame_begin(s, n)
    \/ \E s \in SessionIds : on_recv_frame_wait(s)
    \/ \E s \in SessionIds : on_recv_frame_add(s)
    \/ \E s \in SessionIds : on_recv_frame_emit(s)
    \/ \E s \in SessionIds : client_disconnect(s)
    \/ \E s \in SessionIds : on_session_close_remove(s)
    \/ \E s \in SessionIds : on_session_close_emit(s)

\* The Inlet from construction on: start and stop calls, the acceptor task,
\* and the sessions the acceptor opens while it runs.
LifeSpec == LifeInit /\ [][LifeNext]_vars

\* The executor also runs the acceptor task and a pending stop().
LifeFairness ==
    /\ Fairness
    /\ WF_vars(stop_notified)
    /\ WF_vars(acceptor_shutdown)
    /\ WF_vars(acceptor_exit)
    /\ \A s \in SessionIds : WF_vars(acceptor_wake(s))

FairLifeSpec == LifeSpec /\ LifeFairness

DispatchNext ==
    \/ \E s \in SessionIds : on_session_start_insert(s)
    \/ \E s \in SessionIds : on_session_start_emit(s)
    \/ \E s \in SessionIds, n \in PayloadIds : peer_deliver(s, n)
    \/ \E m \in tasks : dispatch_run(m)
    \/ \E s \in SessionIds : writer_send(s)
    \/ \E s \in SessionIds : writer_then(s)
    \/ \E s \in SessionIds : client_disconnect(s)
    \/ \E s \in SessionIds : on_session_close_remove(s)
    \/ \E s \in SessionIds : on_session_close_emit(s)

\* The running Inlet with every inbound O2iRecvData dispatched as a task of
\* its own.
DispatchSpec == Init /\ [][DispatchNext]_vars

AckNext ==
    \/ \E s \in SessionIds : on_session_start_insert(s)
    \/ \E s \in SessionIds : on_session_start_emit(s)
    \/ \E s \in SessionIds, n \in FrameLens : on_recv_frame_begin(s, n)
    \/ \E s \in SessionIds : on_recv_frame_wait(s)
    \/ \E s \in SessionIds : on_recv_frame_add(s)
    \/ \E s \in SessionIds : on_recv_frame_emit(s)
    \/ \E s \in SessionIds : peer_ack(s)
    \/ \E s \in SessionIds : client_disconnect(s)
    \/ \E s \in SessionIds : on_session_close_remove(s)
    \/ \E s \in SessionIds : on_session_close_emit(s)

\* The running Inlet with a peer whose every O2iSendDataResult answers one
\* emitted I2oSendData with that payload's length.
AckSpec == Init /\ [][AckNext]_vars

PlayerNext ==
    \/ \E p \in PlayerIds : Player_new(p)
    \/ \E p \in PlayerIds, s \in SessionIds, tx \in Senders :
           on_connect_session(p, s, tx)
    \/ \E p \in PlayerIds : on_disconnect_session(p)
    \/ \E p \in PlayerIds : on_terminate_old_session(p)

\* The server's Players: construction and the session callbacks.
PlayerSpec == Init /\ [][PlayerNext]_vars

ManagerNext ==
    \/ \E t \in TunnelModels, db_ok \in BOOLEAN : add_tunnel(t, db_ok)
    \/ \E id \in 1..MaxTunnelId, db_ok \in BOOLEAN : delete_tunnel(id, db_ok)
    \/ \E t \in TunnelModels, db_ok \in BOOLEAN : update_tunnel(t, db_ok)

\* A TunnelManager that starts empty, under any sequence of calls.
ManagerSpec == Init /\ [][ManagerNext]_vars

\* The steps of a call that is under way on task t.
task_run(t) ==
    \/ input_registry_granted(t)
    \/ input_buf_granted(t)
    \/ input_buf_release(t)
    \/ input_registry_release(t)
    \/ on_recv_frame_read_granted(t)
    \/ on_recv_frame_read_release(t)
    \/ on_recv_frame_yield(t)
    \/ on_recv_frame_lock_write(t)
    \/ on_recv_frame_write_granted(t)
    \/ on_recv_frame_write_release(t)
    \/ on_session_start_granted(t)
    \/ on_session_start_release(t)
    \/ on_session_close_granted(t)
    \/ on_session_close_release(t)

LockNext ==
    \/ \E t \in LockTasks, m \in LockingInputs : input_lock_registry(t, m)
    \/ \E t \in LockTasks, s \in SessionIds : on_recv_frame_lock_read(t, s)
    \/ \E t \in LockTasks, s \in SessionIds : on_session_start_lock(t, s)
    \/ \E t \in LockTasks, s \in SessionIds : on_session_close_lock(t, s)
    \/ \E t \in LockTasks : task_run(t)

\* The running Inlet of the plain configuration (no lock request depends on
\* the configuration).
LockInit == Init /\ config = <<FALSE, "None">>

\* Concurrent input() calls and delegate callbacks at the level of their
\* lock requests.
LockSpec == LockInit /\ [][LockNext]_vars

\* The executor runs every task that can take a step.
FairLockSpec == LockSpec /\ \A t \in LockTasks : WF_vars(task_run(t))

ExtractNext ==
    \/ \E s \in SessionIds, k \in 1..MaxRead : socket_read(s, k)
    \/ \E s \in SessionIds : reader_extract(s)

\* The readers' read-and-extract loops on their own.
ExtractSpec == Init /\ [][ExtractNext]_vars

\* The executor keeps running a reader that is inside its loop.
FairExtractSpec ==
    ExtractSpec /\ \A s \in SessionIds : WF_vars(reader_extract(s))

\* ----------------------------------------------------------------- helpers
RECURSIVE SumSent(_)
\* Sum of the payload lengths of the I2oSendData messages in q.
SumSent(q) ==
    IF q = <<>> THEN 0
    ELSE (IF Head(q).type = "I2oSendData" THEN ByteLen(Head(q).data) ELSE 0)
           + SumSent(Tail(q))

RECURSIVE MaxSent(_)
\* The largest payload length of an I2oSendData message in q (0: none).
MaxSent(q) ==
    IF q = <<>> THEN 0
    ELSE LET h == IF Head(q).type = "I2oSendData" THEN ByteLen(Head(q).data)
                  ELSE 0
             r == MaxSent(Tail(q))
         IN  IF h > r THEN h ELSE r

CloseQueued(s) == \E i \in 1..Len(wq[s]) : wq[s][i].type = "Close"

Registered(s) == s \in DOMAIN session_info_map

\* ------------------------------------------------------------------ claims
\* C1: for every session, the payload bytes emitted in I2oSendData minus the
\* bytes acknowledged by O2iSendDataResult never exceed READ_BUF_MAX_LEN plus
\* the largest frame emitted.
C1_InFlightBounded ==
    \A s \in SessionIds :
        SumSent(output[s]) - acked[s]
          <= READ_BUF_MAX_LEN + MaxSent(output[s])

\* A reader is held in the backpressure wait with more than the limit in
\* flight.
C1_Witness ==
    \E s \in SessionIds :
        /\ pc[s] = "wait"
        /\ read_buf_len[s] > READ_BUF_MAX_LEN
        /\ SumSent(output[s]) - acked[s] > READ_BUF_MAX_LEN

\* The order of the reader's positions inside on_recv_frame.
ReaderOrder ==
    {<<"idle", "wait">>, <<"wait", "inc">>, <<"inc", "emit">>, <<"emit", "idle">>}

\* C2: on_recv_frame increments read_buf_len only from a value at or below
\* READ_BUF_MAX_LEN (also with acknowledgements applied between the check and
\* the increment), by the length of the frame, and its steps come in the
\* order wait, increment, emit: I2oSendData is emitted only after the increment.
C2_WaitAddEmit ==
    [][\A s \in SessionIds :
         /\ read_buf_len'[s] > read_buf_len[s] =>
              /\ read_buf_len[s] <= READ_BUF_MAX_LEN
              /\ pc[s] = "inc" /\ pc'[s] = "emit"
              /\ read_buf_len'[s] = read_buf_len[s] + ByteLen(frame[s])
         /\ Count(output'[s], "I2oSendData") > Count(output[s], "I2oSendData") =>
              /\ pc[s] = "emit" /\ pc'[s] = "idle"
              /\ output'[s] = Append(output[s], I2oSendData(s, frame[s]))
         /\ pc'[s] # pc[s] =>
              <<pc[s], pc'[s]>> \in ReaderOrder \/ pc'[s] = "stopped"
      ]_vars

\* The increment has been made from a counter that an acknowledgement had
\* brought down to exactly the limit.
C2_Witness ==
    \E s \in SessionIds :
        /\ pc[s] = "emit"
        /\ acked[s] > 0
        /\ read_buf_len[s] = READ_BUF_MAX_LEN + ByteLen(frame[s])

\* C3: under fair scheduling a call held in the backpressure wait goes on to
\* increment and emit once the counter is at or below READ_BUF_MAX_LEN (or
\* the session is torn down first); while the counter is above the limit the
\* call leaves the wait only by the session's teardown.
C3_AckReleasesWaiter ==
    /\ \A s \in SessionIds :
         (pc[s] = "wait" /\ read_buf_len[s] <= READ_BUF_MAX_LEN)
           ~> (pc[s] \in {"idle", "stopped"})
    /\ [][\A s \in SessionIds :
            (pc[s] = "wait" /\ read_buf_len[s] > READ_BUF_MAX_LEN
               /\ pc'[s] # "wait") => pc'[s] = "stopped"]_vars

\* A waiting call whose counter acknowledgements have brought back from
\* above the limit.
C3_Witness ==
    \E s \in SessionIds :
        /\ pc[s] = "wait"
        /\ read_buf_len[s] <= READ_BUF_MAX_LEN
        /\ acked[s] > 0
        /\ SumSent(output[s]) > READ_BUF_MAX_LEN

\* C4: read_buf_len is never negative, and input of O2iSendDataResult(sid, n)
\* for a registered session sets the counter to read_buf_len - n when
\* n < read_buf_len and to 0 otherwise, and changes no other session's
\* counter, no registry entry, no writer queue and emits nothing.
C4_AckClampsAtZero ==
    [][/\ \A s \in SessionIds : read_buf_len'[s] >= 0
       /\ \A s \in SessionIds, n \in AckLens :
            (Registered(s) /\ input(O2iSendDataResult(s, n))) =>
              /\ read_buf_len' =
                   [read_buf_len EXCEPT
                      ![s] = IF n < read_buf_len[s] THEN read_buf_len[s] - n
                             ELSE 0]
              /\ UNCHANGED <<config, inlet, link, session_info_map, wq, phase, pc, frame,
                             wack, output>>
      ]_vars

\* An acknowledgement larger than the counter has been applied to a session
\* that had bytes in flight.
C4_Witness ==
    \E s \in SessionIds :
        /\ Registered(s)
        /\ SumSent(output[s]) > 0
        /\ acked[s] > SumSent(output[s])
        /\ read_buf_len[s] = 0

C6_CloseExactlyOnce ==
    \A s \in SessionIds :
        /\ Count(output[s], "I2oDisconnect") <= 1
        /\ phase[s] = "closed" =>
             Count(output[s], "I2oDisconnect") = 1 /\ ~Registered(s)

\* C7: in the messages emitted for a session id, every I2oSendData and every
\* I2oRecvDataResult has an I2oConnect before it and no I2oDisconnect before it.
C7_ConnectFirstDisconnectLast ==
    \A s \in SessionIds :
        \A i \in 1..Len(output[s]) :
            output[s][i].type \in {"I2oSendData", "I2oRecvDataResult"} =>
              /\ \E j \in 1..(i - 1) : output[s][j].type = "I2oConnect"
              /\ \A j \in 1..(i - 1) : output[s][j].type # "I2oDisconnect"

\* A session has emitted its connect, data in both directions' accounting
\* and its disconnect.
C7_Witness ==
    \E s \in SessionIds :
        /\ Count(output[s], "I2oSendData") > 0
        /\ Count(output[s], "I2oRecvDataResult") > 0
        /\ Count(output[s], "I2oDisconnect") > 0

\* The O2i messages whose session id is not in the registry.
UnknownSessionMessages ==
    {m \in InputMessages :
       m.type \in {"O2iConnect", "O2iDisconnect", "O2iSendDataResult",
                   "O2iRecvData"} /\ ~Registered(m.sid)}

C9_DecodeFailureCloses ==
    \A s \in decode_failed :
        phase[s] \notin {"starting", "open"} \/ CloseQueued(s)

\* The messages that ask for a session's close.
CloseRequests(s) == {O2iDisconnect(s), O2iConnect(s, FALSE)}

\* C10 as claimed: O2iConnect(sid, false) and O2iDisconnect(sid) with sid
\* registered each enqueue one Close on the writer of sid.
C10_CloseEnqueuedWhenRegistered ==
    \A s \in SessionIds :
        Registered(s) =>
          \A m \in CloseRequests(s) :
              input_internal(m).send = <<[to |-> s, msg |-> WriterClose]>>

\* C10 as amended: O2iConnect(sid, false) and O2iDisconnect(sid) with sid
\* registered enqueue one Close on the writer of sid, and of no other
\* session, while the receiving end of that writer queue is alive; once the
\* session's tasks have ended the send fails and nothing is enqueued; Close
\* is enqueued by nothing else; O2iConnect(sid, true) does nothing at all.
C10_CloseEnqueuedWhileReceiverAlive ==
    /\ [](\A s \in SessionIds :
            /\ Registered(s) =>
                 \A m \in CloseRequests(s) :
                     input_internal(m) =
                       IF phase[s] \in {"starting", "open"}
                       THEN [result |-> "Ok",
                             send |-> <<[to |-> s, msg |-> WriterClose]>>]
                       ELSE [result |-> "SendError", send |-> <<>>]
            /\ input_internal(O2iConnect(s, TRUE)) = Done)
    /\ [][vars' # vars => \A s \in SessionIds :
            /\ \A m \in CloseRequests(s) :
                 (Registered(s) /\ phase[s] \in {"starting", "open"} /\ input(m)) =>
                   /\ wq' = [wq EXCEPT ![s] = Append(@, WriterClose)]
                   /\ UNCHANGED <<session_info_map, read_buf_len, output, phase,
                                  pc, frame, wack>>
            /\ Count(wq'[s], "Close") > Count(wq[s], "Close") =>
                 \E m \in CloseRequests(s) : Registered(s) /\ input(m)
            /\ input(O2iConnect(s, TRUE)) => UNCHANGED vars
         ]_vars

\* Close is on the writer queue of one registered session and the other
\* registered session's queue is empty.
C10_Witness ==
    \E s, t \in SessionIds :
        /\ s # t
        /\ Registered(s) /\ wq[s] = <<WriterClose>>
        /\ Registered(t) /\ wq[t] = <<>>

\* What the peer's payload d decodes to under the record of session s.
Decoded(s, d) ==
    LET info == session_info_map[s]
    IN  [d EXCEPT !.e = IF info.encryption_method = "None" THEN @ ELSE 0,
                  !.z = IF info.is_compressed THEN FALSE ELSE @]

\* C11: an O2iRecvData(sid, data) that input_internal accepts for a
\* registered session enqueues exactly one SendAndThen on that session's
\* writer, carrying the decoded data and the length of data as received; the
\* writer takes the completion from the message it has written, and
\* I2oRecvDataResult(sid, len) is emitted only by that completion, once, with
\* that length.
C11_AckByCompletionWithReceivedLen ==
    /\ [](\A s \in SessionIds : \A d \in DataSet :
            Registered(s) /\ input_internal(O2iRecvData(s, d)).result = "Ok" =>
              input_internal(O2iRecvData(s, d)).send =
                <<[to |-> s,
                   msg |-> SendAndThen(Decoded(s, d), s, ByteLen(d))]>>)
    /\ [][vars' # vars => \A s \in SessionIds :
            /\ Count(wq'[s], "SendAndThen") > Count(wq[s], "SendAndThen") =>
                 \E d \in DataSet :
                     /\ input(O2iRecvData(s, d))
                     /\ wq'[s] = Append(wq[s],
                                   SendAndThen(Decoded(s, d), s, ByteLen(d)))
            /\ (wack'[s] # wack[s] /\ wack'[s] # 0) =>
                 /\ wq[s] # <<>>
                 /\ Head(wq[s]) \in {SendAndThen(d, s, wack'[s]) :
                                       d \in {Plain(1)} \cup DataSet}
                 /\ wq'[s] = Tail(wq[s])
                 /\ output'[s] = output[s]
            /\ Count(output'[s], "I2oRecvDataResult")
                 # Count(output[s], "I2oRecvDataResult") =>
                 /\ wack[s] # 0
                 /\ wack'[s] = 0
                 /\ output'[s] = Append(output[s], I2oRecvDataResult(s, wack[s]))
         ]_vars

\* The writer of a compressing, encrypting session has acknowledged a payload
\* whose length as received differs from its decoded length.
C11_Witness ==
    \E s \in SessionIds :
        /\ Registered(s)
        /\ ByteLen(Transform(s, Plain(1))) # ByteLen(Plain(1))
        /\ \E i \in 1..Len(output[s]) :
              output[s][i] =
                I2oRecvDataResult(s, ByteLen(Transform(s, Plain(1))))
\* The outcome of a start call that does nothing.
Rejected(err) ==
    [result |-> err, bound |-> FALSE, recorded |-> FALSE, spawned |-> FALSE]

\* C12: start on a running Inlet returns "Repeated start", binds no
\* listener, spawns no acceptor task, does not replace the shutdown sink, and
\* running() stays true: the call changes nothing.
C12_RepeatedStartRejected ==
    /\ [](shutdown_tx =>
            \A t \in InletProxyTypes, b \in BOOLEAN :
                start_internal(t, b) = Rejected("Repeated start"))
    /\ [][vars' # vars =>
            \A t \in InletProxyTypes, b \in BOOLEAN, c \in Configs :
                ~(shutdown_tx /\ start(t, b, c))]_vars

\* The Inlet is running in its second cycle with a session open, and start
\* can be called.
C12_Witness ==
    /\ shutdown_tx /\ stop_pc = "idle" /\ acceptor = "running"
    /\ ncycles = 2
    /\ \E s \in SessionIds : phase[s] = "open"

\* C13: on an Inlet that is not running, start with type SOCKS5 or with a
\* failing bind returns the error, records no shutdown sink, spawns no
\* acceptor task and changes nothing, so running() stays false and a later
\* start with a valid type and a working bind succeeds; the shutdown sink is
\* recorded only together with the spawn of the acceptor.
C13_FailedStartLeavesStopped ==
    /\ [](~shutdown_tx =>
            /\ \A b \in BOOLEAN :
                 start_internal("SOCKS5", b)
                   = Rejected("SOCKS5 (Not implemented)")
            /\ \A t \in {"TCP", "UDP"} :
                 /\ start_internal(t, FALSE) = Rejected("BindError")
                 /\ start_internal(t, TRUE).result = "Ok")
    /\ [](\A t \in InletProxyTypes, b \in BOOLEAN :
            start_internal(t, b).recorded =>
              start_internal(t, b).result = "Ok" /\ start_internal(t, b).spawned)
    /\ [][vars' # vars =>
            /\ \A t \in InletProxyTypes, b \in BOOLEAN, c \in Configs :
                 ~(start_internal(t, b).result # "Ok" /\ start(t, b, c))
            /\ (shutdown_tx' /\ ~shutdown_tx) =>
                 acceptor = "none" /\ acceptor' = "running"]_vars

\* The Inlet has been started and stopped once and is not running: a failing
\* start, and after it a valid one, can be called.
C13_Witness ==
    /\ ~shutdown_tx /\ stop_pc = "idle" /\ acceptor = "none"
    /\ ncycles = 1

C15_NothingLeftAfterStop ==
    (~shutdown_tx /\ stop_pc = "idle") =>
        /\ acceptor = "none"
        /\ DOMAIN session_info_map = {}
        /\ \A s \in SessionIds :
              phase[s] \in {"none", "closed"} /\ pc[s] \in {"idle", "stopped"}

\* Two cycles have been run, each session was opened, sent data and was
\* unwound, and the Inlet is stopped.
C15_Witness ==
    /\ ncycles = MaxCycles /\ ~shutdown_tx /\ stop_pc = "idle"
    /\ \A s \in SessionIds :
          phase[s] = "closed" /\ Count(output[s], "I2oSendData") > 0

\* Where payload id x stands in the arrival order a.
Position(a, x) == CHOOSE i \in 1..Len(a) : a[i] = x

\* C16: the payloads of the O2iRecvData messages of one session stand on
\* that session's writer queue in the order in which the messages arrived
\* from the peer link, also when every message is dispatched as a task of its
\* own.
C16_RecvOrderKept ==
    \A s \in SessionIds :
        \A i, j \in 1..Len(wq[s]) :
            (i < j /\ wq[s][i].type = "SendAndThen"
                   /\ wq[s][j].type = "SendAndThen") =>
              Position(arrived[s], wq[s][i].data.n)
                < Position(arrived[s], wq[s][j].data.n)

\* The message variants that are not addressed to the Inlet.
I2oMessages ==
    {I2oDisconnect(s) : s \in InputIds}
      \cup {I2oRecvDataResult(s, n) : s \in InputIds, n \in AckLens}
      \cup {I2oSendData(s, d) : s \in InputIds, d \in DataSet}
      \cup {I2oConnect(s, c[1], c[2], k) :
              s \in InputIds, c \in Configs, k \in {0, 1}}

\* C17: input of an I2o message makes input_internal return the "Unknown
\* message" error and nothing else: nothing is enqueued, no counter is
\* reached, and the call leaves the registry, every read_buf_len, every
\* writer queue, the emitted messages and the Inlet's running state unchanged.
C17_UnknownMessageOnly ==
    /\ [](\A m \in I2oMessages :
            /\ input_internal(m) = [result |-> "Unknown message", send |-> <<>>]
            /\ ~AppliesAck(m))
    /\ [][vars' # vars =>
            \A m \in I2oMessages :
                input(m) => UNCHANGED <<inlet, session_info_map, read_buf_len, wq,
                                        output, phase, pc, frame, wack>>]_vars

\* The Inlet is running with a registered session that has bytes in flight,
\* a message on its writer queue and messages emitted.
C17_Witness ==
    /\ shutdown_tx
    /\ \E s \in SessionIds :
          /\ Registered(s) /\ phase[s] = "open"
          /\ read_buf_len[s] > 0 /\ wq[s] # <<>>
          /\ Count(output[s], "I2oSendData") > 0

\* C18: a session that has been started has emitted exactly one I2oConnect;
\* its compression flag, method name and key are the values of the
\* session's registry record, and on_recv_frame transforms with these same
\* values; a record, once inserted (by on_session_start only), is never
\* changed while it is in the registry.
C18_ConnectCarriesRecord ==
    /\ [](\A s \in SessionIds :
            /\ Count(output[s], "I2oConnect") =
                 (IF phase[s] \in {"none", "starting"} THEN 0 ELSE 1)
            /\ (Registered(s) /\ phase[s] # "starting") =>
                 LET r == session_info_map[s]
                 IN  /\ \E i \in 1..Len(output[s]) :
                           output[s][i] =
                             I2oConnect(s, r.is_compressed, r.encryption_method,
                                        r.encryption_key)
                     /\ Transform(s, Plain(1)) =
                          [n |-> 1, z |-> r.is_compressed,
                           e |-> IF r.encryption_method = "None" THEN 0
                                 ELSE r.encryption_key])
    /\ [][vars' # vars => \A s \in SessionIds :
            /\ (Registered(s) /\ s \in DOMAIN session_info_map') =>
                 session_info_map'[s] = session_info_map[s]
            /\ (~Registered(s) /\ s \in DOMAIN session_info_map') =>
                 on_session_start_insert(s)]_vars

\* A compressing, encrypting session has emitted data encrypted under the
\* key its I2oConnect carried.
C18_Witness ==
    \E s \in SessionIds :
        /\ Registered(s) /\ session_info_map[s].encryption_key # 0
        /\ session_info_map[s].is_compressed
        /\ \E i \in 1..Len(output[s]) :
              /\ output[s][i].type = "I2oSendData"
              /\ output[s][i].data.e = session_info_map[s].encryption_key

\* C19: the registry's keys are exactly the sessions whose on_session_start
\* has inserted and whose on_session_close has not yet removed; a key enters
\* only by on_session_start and leaves only by on_session_close; an input()
\* call of any variant leaves the registry as it is and changes no
\* read_buf_len other than that of the session it addresses.
C19_RegistryFollowsSessions ==
    /\ [](DOMAIN session_info_map =
            {s \in SessionIds : phase[s] \in {"starting", "open", "closing"}})
    /\ [][vars' # vars =>
            /\ \A s \in SessionIds :
                 /\ (~Registered(s) /\ s \in DOMAIN session_info_map') =>
                      on_session_start_insert(s)
                 /\ (Registered(s) /\ s \notin DOMAIN session_info_map') =>
                      on_session_close_remove(s)
            /\ \A m \in InputMessages :
                 input(m) =>
                   /\ session_info_map' = session_info_map
                   /\ \A s \in SessionIds \ {m.sid} :
                        read_buf_len'[s] = read_buf_len[s]]_vars

\* One session has been closed and removed while another is registered and
\* has had an acknowledgement applied to its counter.
C19_Witness ==
    \E s, t \in SessionIds :
        /\ phase[s] = "closed" /\ ~Registered(s)
        /\ Registered(t) /\ acked[t] > 0

\* C20: every on_try_extract_frame call returns the whole buffer as one
\* frame and leaves the buffer empty, and a reader that has entered its
\* extraction loop leaves it again, whatever the buffer holds.
C20_ExtractLoopTerminates ==
    /\ [](\A b \in 0..MaxRead :
            on_try_extract_frame(b) = [frame |-> SomeFrame(b), buffer |-> 0])
    /\ \A s \in SessionIds : (rpc[s] = "extract") ~> (rpc[s] = "read")

\* C21 as claimed: with a peer whose acknowledgements each answer one
\* emitted I2oSendData, read_buf_len is in every reachable state the sum of
\* the emitted payload lengths minus the sum of the acknowledged lengths.
C21_CounterIsEmittedMinusAcked ==
    \A s \in SessionIds :
        read_buf_len[s] = SumSent(output[s]) - acked[s]

\* C21 as amended: with such a peer, read_buf_len is the sum of the emitted
\* payload lengths minus the sum of the acknowledged lengths, plus the length
\* of the transformed frame that on_recv_frame has counted and not yet
\* emitted; once the reader has been cancelled the counter is at least the
\* difference; and no acknowledgement exceeds the counter, so the clamp
\* discards nothing.
C21_CounterIsCountedMinusAcked ==
    \A s \in SessionIds :
        /\ pc[s] \in {"idle", "wait", "inc"} =>
             read_buf_len[s] = SumSent(output[s]) - acked[s]
        /\ pc[s] = "emit" =>
             read_buf_len[s] =
               SumSent(output[s]) - acked[s] + ByteLen(frame[s])
        /\ pc[s] = "stopped" =>
             read_buf_len[s] >= SumSent(output[s]) - acked[s]
        /\ Registered(s) =>
             \A n \in Answerable(s) :
                 /\ n <= read_buf_len[s]
                 /\ SubAck(read_buf_len[s], n) = read_buf_len[s] - n

\* A compressing, encrypting session has had an acknowledgement applied and
\* has counted a further frame that it has not yet emitted.
C21_Witness ==
    \E s \in SessionIds :
        /\ acked[s] > 0
        /\ pc[s] = "emit"
        /\ ByteLen(frame[s]) # frame[s].n
        /\ SumSent(output[s]) = acked[s]

\* C23: a Player is online exactly when a session is attached: every
\* constructed Player is online if and only if its sender is set (a new
\* Player is offline), and the assertion of on_connect_session never fails.
C23_OnlineIffSessionAttached ==
    \A p \in players :
        /\ is_online(p) <=> player_tx[p] # None
        /\ p \notin panicked

\* Two tunnel records have the same sender and the same source port.
SamePort(a, b) ==
    /\ a.sender = b.sender
    /\ get_tunnel_address_port(a.source) = get_tunnel_address_port(b.source)

\* Tunnel records whose addresses pass the format checks.
ValidTunnelModels ==
    {t \in TunnelModels : /\ is_valid_tunnel_source_address(t.source)
                          /\ is_valid_tunnel_endpoint_address(t.endpoint)}

\* C24: in a TunnelManager that starts empty, no two distinct tunnels of the
\* list have the same sender and the same source port; an add_tunnel or an
\* update_tunnel that would create such a pair returns "Port Conflict" and
\* leaves the list as it is; an update_tunnel that keeps the tunnel's own
\* sender and port is not answered with "Port Conflict".
C24_NoPortConflict ==
    /\ \A i, j \in 1..Len(tunnels) :
           i # j => ~SamePort(tunnels[i], tunnels[j])
    /\ \A t \in ValidTunnelModels, db_ok \in BOOLEAN :
           /\ (\E i \in 1..Len(tunnels) : SamePort(tunnels[i], t)) =>
                add_tunnel_internal(Manager, t, db_ok) =
                    Outcome("Port Conflict", Manager)
           /\ (\E i \in 1..Len(tunnels) :
                   tunnels[i].id # t.id /\ SamePort(tunnels[i], t)) =>
                update_tunnel_internal(Manager, t, db_ok) =
                    Outcome("Port Conflict", Manager)
           /\ (\E i \in 1..Len(tunnels) :
                   tunnels[i].id = t.id /\ SamePort(tunnels[i], t)) =>
                update_tunnel_internal(Manager, t, db_ok).result # "Port Conflict"

\* An update_tunnel has just been refused with "Port Conflict" while the list
\* holds two tunnels of one sender, after a delete_tunnel removed tunnel 1.
C24_Witness ==
    /\ manager_result = [op |-> "update_tunnel", result |-> "Port Conflict"]
    /\ \E i, j \in 1..Len(tunnels) :
           i # j /\ tunnels[i].sender = tunnels[j].sender
    /\ db_next_id > 1
    /\ position(tunnels, 1) = 0

\* Task t has asked for a lock that it has not been granted.
Waiting(t) ==
    \E l \in Locks : \E i \in 1..Len(waiters[l]) : waiters[l][i].task = t

\* Task t has a request pending on a lock that cannot be granted before task
\* u gives way: u holds the lock in a conflicting mode, or u's conflicting
\* request is older.
WaitsFor(t, u) ==
    \E l \in Locks : \E i \in 1..Len(waiters[l]) :
        /\ waiters[l][i].task = t
        /\ \/ \E h \in holders[l] :
                 h.task = u /\ (h.mode = "write" \/ waiters[l][i].mode = "write")
           \/ \E j \in 1..(i - 1) :
                 /\ waiters[l][j].task = u
                 /\ (waiters[l][j].mode = "write" \/ waiters[l][i].mode = "write")

\* There is no set of tasks in which each one waits for another one of the
\* set.
NoWaitCycle ==
    \A C \in SUBSET LockTasks :
        C # {} => \E t \in C : \A u \in C : ~WaitsFor(t, u)

\* C22: under any interleaving of input() calls and delegate callbacks no
\* tasks wait on each other's locks in a cycle, no holder of a read_buf_len
\* lock waits for the registry lock (or for any lock), and with fair
\* scheduling every lock request is eventually granted.
C22_LocksNeverDeadlock ==
    /\ []NoWaitCycle
    /\ [](\A t \in LockTasks :
            (\E s \in SessionIds : \E h \in holders[BufLock(s)] : h.task = t)
                => ~Waiting(t))
    /\ \A t \in LockTasks : Waiting(t) ~> ~Waiting(t)

\* An input() call holds the registry read lock and waits for a counter's
\* write lock that on_recv_frame holds, while on_session_close waits for
\* the registry write lock.
C22_Witness ==
    \E a, r, c \in LockTasks :
        /\ task_pc[a] = "input_buf_wait"
        /\ task_pc[r] \in {"recv_read_held", "recv_write_held"}
        /\ task_call[r].sid = task_call[a].sid
        /\ task_pc[c] = "close_wait"

====
